---- MODULE Spec2Model ----
(***************************************************************************)
(* Model of the moving-scheduling server: the entity store (customers,     *)
(* crew members, crews, the crew/member association table, appointments),  *)
(* the CRUD request handlers of src/routes, the seeding utility of         *)
(* src/database/seed_data.py and the health aggregator of                  *)
(* src/database/health_check.py.                                           *)
(*                                                                         *)
(* Python's None is NULL in an integer column and None in a text column.   *)
(* A JSON payload is a function from the keys it holds to their values; an *)
(* absent key is absent from its DOMAIN.                                   *)
(***************************************************************************)
EXTENDS Integers, FiniteSets, Sequences, TLC

VARIABLES
    customers,        \* table customer: id -> row
    crew_members,     \* table crew_member: id -> row
    crews,            \* table crew: id -> row
    association,      \* table crew_members_association: set of <<crew_id, crew_member_id>>
    appointments,     \* table appointment: id -> row
    clock,            \* the database's current_timestamp
    fk_enforced,      \* whether the storage engine enforces FOREIGN KEY constraints
    db_up,            \* whether the database answers queries
    existing_tables,  \* the tables the database holds
    query_time_ms,    \* table -> what a COUNT query on it takes, in milliseconds
    resp,             \* the last request handled: its handler, its status code,
                      \* whether it committed a transaction
    health_report,    \* the last report of run_all_checks
    seed_runs,        \* seed_all_data calls so far
    checks,           \* run_all_checks: the checks still to run, in order
    outcomes,         \* run_all_checks: what each check function does when called
    results,          \* run_all_checks: check name -> result recorded so far
    overall_status,   \* run_all_checks: the running verdict
    sessions          \* request in flight -> what its handler has read and done so far

storeVars == <<customers, crew_members, crews, association, appointments>>
envVars == <<clock, fk_enforced, db_up, existing_tables, query_time_ms>>
loopVars == <<checks, outcomes, results, overall_status>>
vars == <<customers, crew_members, crews, association, appointments, clock,
          fk_enforced, db_up, existing_tables, query_time_ms, resp,
          health_report, seed_runs, checks, outcomes, results, overall_status,
          sessions>>

\* ------------------------------------------------------------------ values

NULL == 0 - 1
None == "None"
EmptyData == [k \in {} |-> 0]
NoReport == [overall_status |-> "none"]

\* the requests that can be in flight at a time
MaxRequests == 2
Requests == 1..MaxRequests
NoSessions == [r \in Requests |-> [phase |-> "idle"]]

Has(data, key) == key \in DOMAIN data
\* dict.get(key, default)
Get(data, key, default) == IF Has(data, key) THEN data[key] ELSE default
\* dict.get(key): None when the key is absent
GetId(data, key) == Get(data, key, NULL)
GetText(data, key) == Get(data, key, None)
\* Python truth of an integer-or-None value and of a text-or-None value
TruthyId(v) == v # NULL /\ v # 0
TruthyText(v) == v # None /\ v # ""

\* the columns that hold a number; the others hold text
NumberColumns ==
    {"customer_id", "crew_id", "appointment_date", "appointment_time",
     "estimated_duration", "estimated_cost", "actual_cost", "created_at",
     "updated_at"}
\* Python's None as a value of the column
NullOf(key) == IF key \in NumberColumns THEN NULL ELSE None

Max(S) == CHOOSE x \in S : \A y \in S : y <= x
\* the id a new row of table t gets: one past the largest id in use
NextId(t) == IF DOMAIN t = {} THEN 1 ELSE Max(DOMAIN t) + 1

\* the tables of the schema that check_tables_exist asks for
required_tables == {"customer", "crew_member", "crew", "appointment"}

\* ------------------------------------------------------------------- store

MaxRows == 2
MaxClock == 1

\* ids a request may address: every id a table can hold, and one past them
PathIds == 1..(MaxRows + 1)

\* a table has room for one more row within the bound
Room(t) == Cardinality(DOMAIN t) < MaxRows /\ NextId(t) <= MaxRows

Override(data, key, v) == (key :> v) @@ data
Without(data, key) == [k \in DOMAIN data \ {key} |-> data[k]]
Remove(t, id) == [k \in DOMAIN t \ {id} |-> t[k]]

\* FOREIGN KEY constraints of the schema
ForeignKeysHold(cu, me, cr, as, ap) ==
    /\ \A a \in DOMAIN ap :
          /\ ap[a].customer_id \in DOMAIN cu
          /\ ap[a].crew_id = NULL \/ ap[a].crew_id \in DOMAIN cr
    /\ \A l \in as : l[1] \in DOMAIN cr /\ l[2] \in DOMAIN me

\* NOT NULL constraints of the schema
NotNullHolds(cu, me, cr, ap) ==
    /\ \A c \in DOMAIN cu : cu[c].name # None /\ cu[c].phone # None
    /\ \A m \in DOMAIN me : me[m].name # None
    /\ \A c \in DOMAIN cr : cr[c].name # None
    /\ \A a \in DOMAIN ap :
          /\ ap[a].customer_id # NULL
          /\ ap[a].appointment_date # NULL
          /\ ap[a].appointment_time # NULL
          /\ ap[a].origin_address # None
          /\ ap[a].destination_address # None

\* db.session.commit() of the given tables succeeds; otherwise it raises
\* IntegrityError and the handler rolls back
CommitOK(cu, me, cr, as, ap) ==
    /\ NotNullHolds(cu, me, cr, ap)
    /\ fk_enforced => ForeignKeysHold(cu, me, cr, as, ap)

ignored == <<envVars, health_report, seed_runs, loopVars, sessions>>

\* a response that persists nothing
Reject(op, code) ==
    /\ resp' = [op |-> op, code |-> code, committed |-> FALSE]
    /\ UNCHANGED <<storeVars, ignored>>


\* the session of a request is removed when the request ends, whatever its
\* outcome: what it holds and never committed is discarded
shutdown_session(stored, pending) == stored

\* a variant in which the assignments made before the return reach the store
ReturnCommitted(op, code, ap) ==
    /\ resp' = [op |-> op, code |-> code, committed |-> TRUE, dirty |-> TRUE]
    /\ appointments' = ap
    /\ UNCHANGED <<customers, crew_members, crews, association, ignored>>

\* a return that neither commits nor rolls back: the response leaves with the
\* session holding the appointments as assigned so far (dirty: they differ
\* from the stored ones)
Return(op, code, ap) ==
    /\ resp' = [op |-> op, code |-> code, committed |-> FALSE,
                dirty |-> ap # appointments]
    /\ appointments' = shutdown_session(appointments, ap)
    /\ UNCHANGED <<customers, crew_members, crews, association, ignored>>

\* a response after a commit of the given tables
Persist(op, code, cu, me, cr, as, ap) ==
    IF CommitOK(cu, me, cr, as, ap)
    THEN /\ resp' = [op |-> op, code |-> code, committed |-> TRUE]
         /\ customers' = cu
         /\ crew_members' = me
         /\ crews' = cr
         /\ association' = as
         /\ appointments' = ap
         /\ UNCHANGED ignored
    ELSE Reject(op, 500)

\* Model.query.get_or_404(id) inside try/except Exception: the NotFound it
\* raises is an Exception, so the handler's last except clause answers
NotFoundCode == 500

\* --------------------------------------------------------------- customers

Customer(data) ==
    [name |-> data.name, phone |-> data.phone, email |-> GetText(data, "email"),
     address |-> GetText(data, "address"), created_at |-> clock]

get_customer(id) ==
    IF id \notin DOMAIN customers THEN Reject("get_customer", NotFoundCode)
    ELSE Reject("get_customer", 200)

create_customer(data) ==
    /\ Room(customers)
    /\ IF \/ data = EmptyData
          \/ ~TruthyText(GetText(data, "name"))
          \/ ~TruthyText(GetText(data, "phone"))
       THEN Reject("create_customer", 400)
       ELSE Persist("create_customer", 201,
                    (NextId(customers) :> Customer(data)) @@ customers,
                    crew_members, crews, association, appointments)

update_customer(id, data) ==
    IF id \notin DOMAIN customers THEN Reject("update_customer", NotFoundCode)
    ELSE IF data = EmptyData THEN Reject("update_customer", 400)
    ELSE LET old == customers[id]
             new == [old EXCEPT !.name = Get(data, "name", old.name),
                                !.phone = Get(data, "phone", old.phone),
                                !.email = Get(data, "email", old.email),
                                !.address = Get(data, "address", old.address)]
         IN  Persist("update_customer", 200, [customers EXCEPT ![id] = new],
                     crew_members, crews, association, appointments)

\* db.session.delete(customer): the unit of work first sets customer_id of the
\* customer's appointments to NULL (the relationship has no delete cascade)
delete_customer(id) ==
    IF id \notin DOMAIN customers THEN Reject("delete_customer", NotFoundCode)
    ELSE Persist("delete_customer", 200, Remove(customers, id),
                 crew_members, crews, association,
                 [a \in DOMAIN appointments |->
                    IF appointments[a].customer_id = id
                    THEN [appointments[a] EXCEPT !.customer_id = NULL,
                                                 !.updated_at = clock]
                    ELSE appointments[a]])

\* ------------------------------------------------------------ crew members

CrewMember(data) ==
    [name |-> data.name, phone |-> GetText(data, "phone"),
     email |-> GetText(data, "email"), position |-> GetText(data, "position"),
     is_active |-> Get(data, "is_active", "True"), created_at |-> clock]

get_crew_member(id) ==
    IF id \notin DOMAIN crew_members THEN Reject("get_crew_member", NotFoundCode)
    ELSE Reject("get_crew_member", 200)

create_crew_member(data) ==
    /\ Room(crew_members)
    /\ IF data = EmptyData \/ ~TruthyText(GetText(data, "name"))
       THEN Reject("create_crew_member", 400)
       ELSE Persist("create_crew_member", 201, customers,
                    (NextId(crew_members) :> CrewMember(data)) @@ crew_members,
                    crews, association, appointments)

update_crew_member(id, data) ==
    IF id \notin DOMAIN crew_members THEN Reject("update_crew_member", NotFoundCode)
    ELSE IF data = EmptyData THEN Reject("update_crew_member", 400)
    ELSE LET old == crew_members[id]
             new == [old EXCEPT !.name = Get(data, "name", old.name),
                                !.phone = Get(data, "phone", old.phone),
                                !.email = Get(data, "email", old.email),
                                !.position = Get(data, "position", old.position),
                                !.is_active = Get(data, "is_active", old.is_active)]
         IN  Persist("update_crew_member", 200, customers,
                     [crew_members EXCEPT ![id] = new], crews, association,
                     appointments)

\* db.session.delete(member): the rows of the association table that name the
\* member go with it (the crews backref is a secondary relationship)
delete_crew_member(id) ==
    IF id \notin DOMAIN crew_members THEN Reject("delete_crew_member", NotFoundCode)
    ELSE Persist("delete_crew_member", 200, customers, Remove(crew_members, id),
                 crews, association \ {<<c, id>> : c \in DOMAIN crews}, appointments)

\* ------------------------------------------------------------------- crews

Crew(data) ==
    [name |-> data.name, description |-> GetText(data, "description"),
     is_active |-> Get(data, "is_active", "True"), created_at |-> clock]

\* crew.members
\* (the collection is loaded by a join of the association table with
\* crew_member: a row that names no crew member loads nothing)
Members(crew_id) == {m \in DOMAIN crew_members : <<crew_id, m>> \in association}

\* the association rows of a crew given member_ids: ids of no crew member are
\* skipped
Links(crew_id, member_ids) ==
    {<<crew_id, member_ids[i]>> :
        i \in {j \in DOMAIN member_ids : member_ids[j] \in DOMAIN crew_members}}

get_crew(id) ==
    IF id \notin DOMAIN crews THEN Reject("get_crew", NotFoundCode)
    ELSE Reject("get_crew", 200)

\* (an association row the table already holds makes the INSERT fail on the
\* primary key)
create_crew(data) ==
    /\ Room(crews)
    /\ IF data = EmptyData \/ ~TruthyText(GetText(data, "name"))
       THEN Reject("create_crew", 400)
       ELSE IF Links(NextId(crews), Get(data, "member_ids", << >>))
                  \cap association # {}
       THEN Reject("create_crew", 500)
       ELSE Persist("create_crew", 201, customers, crew_members,
                    (NextId(crews) :> Crew(data)) @@ crews,
                    association
                      \cup Links(NextId(crews), Get(data, "member_ids", << >>)),
                    appointments)

update_crew(id, data) ==
    IF id \notin DOMAIN crews THEN Reject("update_crew", NotFoundCode)
    ELSE IF data = EmptyData THEN Reject("update_crew", 400)
    ELSE LET old == crews[id]
             new == [old EXCEPT !.name = Get(data, "name", old.name),
                                !.description = Get(data, "description", old.description),
                                !.is_active = Get(data, "is_active", old.is_active)]
             as == IF Has(data, "member_ids")
                   THEN (association \ {<<id, m>> : m \in Members(id)})
                           \cup Links(id, data.member_ids)
                   ELSE association
         IN  Persist("update_crew", 200, customers, crew_members,
                     [crews EXCEPT ![id] = new], as, appointments)

\* db.session.delete(crew): the unit of work deletes the crew's rows of the
\* association table and sets crew_id of the crew's appointments to NULL
delete_crew(id) ==
    IF id \notin DOMAIN crews THEN Reject("delete_crew", NotFoundCode)
    ELSE Persist("delete_crew", 200, customers, crew_members, Remove(crews, id),
                 association \ {<<id, m>> : m \in Members(id)},
                 [a \in DOMAIN appointments |->
                    IF appointments[a].crew_id = id
                    THEN [appointments[a] EXCEPT !.crew_id = NULL,
                                                 !.updated_at = clock]
                    ELSE appointments[a]])

\* a variant of add_member_to_crew that appends without looking at crew.members
add_member_unguarded(crew_id, data) ==
    IF crew_id \notin DOMAIN crews THEN Reject("add_member_to_crew", NotFoundCode)
    ELSE IF data = EmptyData \/ ~TruthyId(GetId(data, "member_id"))
    THEN Reject("add_member_to_crew", 400)
    ELSE IF data.member_id \notin DOMAIN crew_members
    THEN Reject("add_member_to_crew", NotFoundCode)
    ELSE IF <<crew_id, data.member_id>> \in association
    THEN Reject("add_member_to_crew", 500)
    ELSE Persist("add_member_to_crew", 200, customers, crew_members, crews,
                 association \cup {<<crew_id, data.member_id>>}, appointments)

add_member_to_crew(crew_id, data) ==
    IF crew_id \notin DOMAIN crews THEN Reject("add_member_to_crew", NotFoundCode)
    ELSE IF data = EmptyData \/ ~TruthyId(GetId(data, "member_id"))
    THEN Reject("add_member_to_crew", 400)
    ELSE IF data.member_id \notin DOMAIN crew_members
    THEN Reject("add_member_to_crew", NotFoundCode)
    ELSE IF data.member_id \notin Members(crew_id)
    THEN Persist("add_member_to_crew", 200, customers, crew_members, crews,
                 association \cup {<<crew_id, data.member_id>>}, appointments)
    ELSE Reject("add_member_to_crew", 200)

remove_member_from_crew(crew_id, member_id) ==
    IF crew_id \notin DOMAIN crews \/ member_id \notin DOMAIN crew_members
    THEN Reject("remove_member_from_crew", NotFoundCode)
    ELSE IF member_id \in Members(crew_id)
    THEN Persist("remove_member_from_crew", 200, customers, crew_members, crews,
                 association \ {<<crew_id, member_id>>}, appointments)
    ELSE Reject("remove_member_from_crew", 200)

\* ------------------------------------------------------------ appointments

\* datetime.strptime(s, '%Y-%m-%d').date() as days since 2025-01-01; strptime
\* takes a month or day without its leading zero
DateOf ==
    [s \in {"2025-03-01", "2025-03-02", "2025-3-2"} |->
        IF s = "2025-03-01" THEN 59 ELSE 60]
\* datetime.strptime(s, '%H:%M').time() as minutes since midnight
TimeOf ==
    [s \in {"09:00", "14:30", "9:00"} |-> IF s = "14:30" THEN 870 ELSE 540]

\* strptime raises TypeError for None and ValueError for a string that does
\* not match the format
Parse(table, s) ==
    IF s = None THEN [err |-> "TypeError", value |-> NULL]
    ELSE IF s \in DOMAIN table THEN [err |-> "none", value |-> table[s]]
    ELSE [err |-> "ValueError", value |-> NULL]

RequiredAppointmentKeys ==
    {"customer_id", "appointment_date", "appointment_time", "origin_address",
     "destination_address"}

Appointment(data, date, time) ==
    [customer_id |-> data.customer_id,
     crew_id |-> GetId(data, "crew_id"),
     appointment_date |-> date,
     appointment_time |-> time,
     estimated_duration |-> GetId(data, "estimated_duration"),
     origin_address |-> data.origin_address,
     destination_address |-> data.destination_address,
     status |-> Get(data, "status", "scheduled"),
     notes |-> GetText(data, "notes"),
     estimated_cost |-> GetId(data, "estimated_cost"),
     actual_cost |-> GetId(data, "actual_cost"),
     created_at |-> clock,
     updated_at |-> clock]

\* a variant of Keep that forgets the stored value of an absent key
KeepNothing(data, key, current) == Get(data, key, NullOf(key))

\* data.get(key, current): the stored value stays when the payload has no key
Keep(data, key, current) == Get(data, key, current)

\* the UPDATE a commit emits for a changed row sets updated_at (onupdate); an
\* unchanged row gets no UPDATE
Touch(old, new) == IF new = old THEN old ELSE [new EXCEPT !.updated_at = clock]

get_appointment(id) ==
    IF id \notin DOMAIN appointments THEN Reject("get_appointment", NotFoundCode)
    ELSE Reject("get_appointment", 200)

create_appointment(data) ==
    /\ Room(appointments)
    /\ LET op == "create_appointment"
           date == Parse(DateOf, data.appointment_date)
           time == Parse(TimeOf, data.appointment_time)
       IN  IF data = EmptyData \/ ~(RequiredAppointmentKeys \subseteq DOMAIN data)
           THEN Reject(op, 400)
           ELSE IF data.customer_id \notin DOMAIN customers THEN Reject(op, 404)
           ELSE IF TruthyId(GetId(data, "crew_id")) /\ data.crew_id \notin DOMAIN crews
           THEN Reject(op, 404)
           ELSE IF date.err = "ValueError" THEN Reject(op, 400)
           ELSE IF date.err = "TypeError" THEN Reject(op, 500)
           ELSE IF time.err = "ValueError" THEN Reject(op, 400)
           ELSE IF time.err = "TypeError" THEN Reject(op, 500)
           ELSE Persist(op, 201, customers, crew_members, crews, association,
                        (NextId(appointments) :> Appointment(data, date.value, time.value))
                           @@ appointments)

update_appointment(id, data) ==
    LET op == "update_appointment"
        old == appointments[id]
        date == Parse(DateOf, data.appointment_date)
        time == Parse(TimeOf, data.appointment_time)
        with_customer == [old EXCEPT
                  !.customer_id = Get(data, "customer_id", old.customer_id)]
        with_crew == [with_customer EXCEPT
                  !.crew_id = Get(data, "crew_id", old.crew_id)]
        with_date == [with_crew EXCEPT
                  !.appointment_date =
                      IF Has(data, "appointment_date") THEN date.value
                      ELSE old.appointment_date]
        assigned(row) == [appointments EXCEPT ![id] = row]
        new == [old EXCEPT
                  !.customer_id = Get(data, "customer_id", old.customer_id),
                  !.crew_id = Get(data, "crew_id", old.crew_id),
                  !.appointment_date =
                      IF Has(data, "appointment_date") THEN date.value
                      ELSE old.appointment_date,
                  !.appointment_time =
                      IF Has(data, "appointment_time") THEN time.value
                      ELSE old.appointment_time,
                  !.estimated_duration = Keep(data, "estimated_duration", old.estimated_duration),
                  !.origin_address = Keep(data, "origin_address", old.origin_address),
                  !.destination_address =
                      Keep(data, "destination_address", old.destination_address),
                  !.status = Keep(data, "status", old.status),
                  !.notes = Keep(data, "notes", old.notes),
                  !.estimated_cost = Keep(data, "estimated_cost", old.estimated_cost),
                  !.actual_cost = Keep(data, "actual_cost", old.actual_cost)]
    IN  IF id \notin DOMAIN appointments THEN Reject(op, NotFoundCode)
        ELSE IF data = EmptyData THEN Reject(op, 400)
        ELSE IF Has(data, "customer_id") /\ data.customer_id \notin DOMAIN customers
        THEN Reject(op, 404)
        ELSE IF /\ Has(data, "crew_id")
                /\ TruthyId(data.crew_id)
                /\ data.crew_id \notin DOMAIN crews
        THEN Return(op, 404, assigned(with_customer))
        ELSE IF Has(data, "appointment_date") /\ date.err = "ValueError"
        THEN Return(op, 400, assigned(with_crew))
        ELSE IF Has(data, "appointment_date") /\ date.err = "TypeError"
        THEN Reject(op, 500)
        ELSE IF Has(data, "appointment_time") /\ time.err = "ValueError"
        THEN Return(op, 400, assigned(with_date))
        ELSE IF Has(data, "appointment_time") /\ time.err = "TypeError"
        THEN Reject(op, 500)
        ELSE Persist(op, 200, customers, crew_members, crews, association,
                     [appointments EXCEPT ![id] = Touch(old, new)])

delete_appointment(id) ==
    IF id \notin DOMAIN appointments THEN Reject("delete_appointment", NotFoundCode)
    ELSE Persist("delete_appointment", 200, customers, crew_members, crews,
                 association, Remove(appointments, id))

valid_statuses == {"scheduled", "in_progress", "completed", "cancelled"}

\* a variant of update_appointment_status that stores any status it is given
status_unvalidated(id, data) ==
    LET op == "update_appointment_status"
        old == appointments[id]
    IN  IF id \notin DOMAIN appointments THEN Reject(op, NotFoundCode)
        ELSE IF data = EmptyData \/ ~Has(data, "status") THEN Reject(op, 400)
        ELSE Persist(op, 200, customers, crew_members, crews, association,
                     [appointments EXCEPT
                        ![id] = Touch(old, [old EXCEPT !.status = data.status])])

update_appointment_status(id, data) ==
    LET op == "update_appointment_status"
        old == appointments[id]
    IN  IF id \notin DOMAIN appointments THEN Reject(op, NotFoundCode)
        ELSE IF data = EmptyData \/ ~Has(data, "status") THEN Reject(op, 400)
        ELSE IF data.status \notin valid_statuses THEN Reject(op, 400)
        ELSE Persist(op, 200, customers, crew_members, crews, association,
                     [appointments EXCEPT
                        ![id] = Touch(old, [old EXCEPT !.status = data.status])])

\* the database's clock moves on between requests
Tick ==
    /\ clock < MaxClock
    /\ clock' = clock + 1
    /\ UNCHANGED <<storeVars, fk_enforced, db_up, existing_tables, query_time_ms, resp,
                   health_report, seed_runs,
                   loopVars, sessions>>

\* ------------------------------------------------------- request payloads

\* every payload got from base by dropping one of the keys listed, or by
\* giving one of them one of the values listed for it
Variants(base, values) ==
    {base} \cup {Without(base, k) : k \in DOMAIN values \cap DOMAIN base}
           \cup UNION {{Override(base, k, v) : v \in values[k]} : k \in DOMAIN values}

BaseCustomer ==
    [name |-> "John Smith", phone |-> "555-0101", email |-> "john.smith@email.com",
     address |-> "123 Main St"]
BaseMember ==
    [name |-> "Mike Rodriguez", phone |-> "555-1001", position |-> "Team Lead"]
BaseCrew == [name |-> "Alpha Team", description |-> "Primary moving crew"]
BaseAppointment ==
    [customer_id |-> 1, appointment_date |-> "2025-03-01",
     appointment_time |-> "09:00", estimated_duration |-> 120,
     origin_address |-> "123 Main St", destination_address |-> "456 Oak Ave",
     notes |-> "Handle with care", estimated_cost |-> 300, actual_cost |-> 350]

\* ---------------------------------------------------------- health: the fold

CheckNames == <<"connection", "tables", "data_integrity", "performance", "activity">>
CheckSet == {CheckNames[i] : i \in DOMAIN CheckNames}
Statuses == {"healthy", "warning", "unhealthy"}
\* a check function returns a result with one of the three statuses, or raises
Outcomes == Statuses \cup {"raise"}

\* the status run_all_checks records for a check: that of its result, or
\* unhealthy for a check that raised
RecordedStatus(outcome) == IF outcome = "raise" THEN "unhealthy" ELSE outcome

\* a variant that records what the check did as it is
RecordedResultAsIs(name, outcome) ==
    [status |-> outcome, message |-> name \o ": the message of the check"]

\* the entry of results for a check: the result the check returned, or the
\* one made of the exception it raised
RecordedResult(name, outcome) ==
    IF outcome = "raise"
    THEN [status |-> "unhealthy", message |-> "Health check failed: " \o name]
    ELSE [status |-> outcome, message |-> name \o ": the message of the check"]

\* a variant of the loop body in which a later warning replaces unhealthy
FoldStatusLastWins(overall, outcome) ==
    IF outcome = "raise" THEN "unhealthy"
    ELSE IF outcome = "healthy" THEN overall ELSE outcome

\* one pass of the loop body of run_all_checks over overall_status
FoldStatus(overall, outcome) ==
    IF outcome = "raise" THEN "unhealthy"
    ELSE IF outcome = "unhealthy" THEN "unhealthy"
    ELSE IF outcome = "warning" /\ overall = "healthy" THEN "warning"
    ELSE overall

\* a variant that counts the results of every other status
CountOthers(res, status) == Cardinality({n \in DOMAIN res : res[n].status # status})

\* sum(1 for r in results.values() if r['status'] == status)
Count(res, status) == Cardinality({n \in DOMAIN res : res[n].status = status})

_generate_summary(res) ==
    [total_checks |-> Cardinality(DOMAIN res),
     healthy |-> Count(res, "healthy"),
     warnings |-> Count(res, "warning"),
     unhealthy |-> Count(res, "unhealthy")]

RECURSIVE FoldAll(_, _, _)
FoldAll(names, outs, overall) ==
    IF names = << >> THEN overall
    ELSE FoldAll(Tail(names), outs, FoldStatus(overall, outs[Head(names)]))

\* run_all_checks, given what each check function does
run_all_checks(outs) ==
    LET res == [n \in CheckSet |-> RecordedResult(n, outs[n])]
    IN  [overall_status |-> FoldAll(CheckNames, outs, "healthy"),
         checks |-> res,
         summary |-> _generate_summary(res)]

Perms(S) == {p \in [1..Cardinality(S) -> S] : \A i, j \in DOMAIN p : i # j => p[i] # p[j]}

\* run_all_checks as the loop it is, one check per step, over a checks
\* dictionary in any order and check functions of any outcome
LoopInit ==
    /\ checks \in Perms(CheckSet)
    /\ outcomes \in [CheckSet -> Outcomes]
    /\ results = EmptyData
    /\ overall_status = "healthy"

LoopIdle ==
    /\ checks = << >>
    /\ outcomes = [n \in CheckSet |-> "healthy"]
    /\ results = EmptyData
    /\ overall_status = "healthy"

IdleStore ==
    /\ customers = EmptyData
    /\ crew_members = EmptyData
    /\ crews = EmptyData
    /\ association = {}
    /\ appointments = EmptyData

InitFold ==
    /\ LoopInit
    /\ IdleStore
    /\ clock = 0
    /\ fk_enforced = FALSE
    /\ db_up = TRUE
    /\ existing_tables = required_tables
    /\ query_time_ms = [t \in required_tables |-> 0]
    /\ resp = [op |-> "none", code |-> 0, committed |-> FALSE]
    /\ health_report = NoReport
    /\ seed_runs = 0
    /\ sessions = NoSessions

RunCheck ==
    /\ checks # << >>
    /\ LET name == Head(checks)
       IN  /\ results' = (name :> RecordedResult(name, outcomes[name])) @@ results
           /\ overall_status' = FoldStatus(overall_status, outcomes[name])
    /\ checks' = Tail(checks)
    /\ UNCHANGED <<outcomes, storeVars, envVars, resp, health_report, seed_runs, sessions>>

ReturnReport ==
    /\ checks = << >>
    /\ health_report = NoReport
    /\ health_report' = [overall_status |-> overall_status,
                         checks |-> results,
                         summary |-> _generate_summary(results)]
    /\ UNCHANGED <<loopVars, sessions, storeVars, envVars, resp, seed_runs>>

NextFold == RunCheck \/ ReturnReport

SpecFold == InitFold /\ [][NextFold]_vars

\* the worst of a set of statuses
WorstOf(S) ==
    IF "unhealthy" \in S THEN "unhealthy"
    ELSE IF "warning" \in S THEN "warning" ELSE "healthy"

RecordedSoFar == {results[n].status : n \in DOMAIN results}

\* C1: at every point of the loop overall_status is the worst of the statuses
\* recorded so far (unhealthy if any is unhealthy, else warning if any is
\* warning, else healthy), whatever the statuses and the order of the checks,
\* and the report returned carries the worst of all five.
C1_WorstOfFold ==
    /\ overall_status = WorstOf(RecordedSoFar)
    /\ health_report # NoReport =>
          /\ DOMAIN health_report.checks = CheckSet
          /\ health_report.overall_status
                = WorstOf({RecordedStatus(outcomes[n]) : n \in CheckSet})
          /\ health_report = run_all_checks(outcomes)

\* C1 witness: a report in which a healthy and a warning check ran after an
\* unhealthy one and the verdict stayed unhealthy
C1_Witness ==
    /\ health_report # NoReport
    /\ health_report.overall_status = "unhealthy"
    /\ \E n \in CheckSet : outcomes[n] = "warning"
    /\ \E n \in CheckSet : outcomes[n] = "healthy"

\* C16: run_all_checks never propagates an exception of a check.  A check
\* that raises is recorded as an unhealthy result that carries the message
\* made of the exception, the loop goes on to the remaining checks, and the
\* report returned holds one entry for each of the five checks.
C16_RaisesAreCaught ==
    [][/\ RunCheck =>
             LET name == Head(checks)
             IN  /\ DOMAIN results' = DOMAIN results \cup {name}
                 /\ checks' = Tail(checks)
                 /\ outcomes[name] = "raise" =>
                       /\ results'[name].status = "unhealthy"
                       /\ results'[name].message = "Health check failed: " \o name
                 /\ outcomes[name] # "raise" => results'[name].status = outcomes[name]
       /\ ReturnReport =>
             /\ DOMAIN health_report'.checks = CheckSet
             /\ health_report'.summary.total_checks = Len(CheckNames)
             /\ \A n \in CheckSet :
                   outcomes[n] = "raise" =>
                      health_report'.checks[n].status = "unhealthy"]_vars

\* C16 witness: the first check raised, a later one was healthy, and the
\* report holds the five entries
C16_Witness ==
    /\ health_report # NoReport
    /\ DOMAIN health_report.checks = CheckSet
    /\ \E n, m \in CheckSet :
          /\ outcomes[n] = "raise"
          /\ health_report.checks[n].message = "Health check failed: " \o n
          /\ outcomes[m] = "healthy"
          /\ health_report.checks[m].status = "healthy"

\* ------------------------------------------------------- the CRUD endpoints

Idle ==
    /\ LoopIdle
    /\ clock = 0
    /\ db_up = TRUE
    /\ existing_tables = required_tables
    /\ query_time_ms = [t \in required_tables |-> 0]
    /\ resp = [op |-> "none", code |-> 0, committed |-> FALSE]
    /\ health_report = NoReport
    /\ seed_runs = 0
    /\ sessions = NoSessions

\* the four entity types: create, get, update and membership requests on an
\* empty store
CustomerCreates ==
    {EmptyData} \cup Variants(BaseCustomer, [name |-> {None, ""}, phone |-> {None, ""}])
MemberCreates == {EmptyData} \cup Variants(BaseMember, [name |-> {None, ""}])
CrewCreates ==
    {EmptyData} \cup Variants(BaseCrew, [name |-> {None, ""}, member_ids |-> {<<1>>}])
AppointmentCreates ==
    {EmptyData} \cup
    Variants(BaseAppointment,
             [customer_id |-> {NULL, MaxRows + 1},
              appointment_date |-> {None, "03/01/2025"},
              appointment_time |-> {None, "9am"},
              origin_address |-> {None},
              destination_address |-> {None}])
AddMemberPayloads ==
    {EmptyData, [member_id |-> NULL], [member_id |-> 0]}
    \cup {[member_id |-> m] : m \in PathIds}

Init ==
    /\ Idle
    /\ IdleStore
    /\ fk_enforced = FALSE

CustomerRequest ==
    \/ \E id \in PathIds : get_customer(id)
    \/ \E data \in CustomerCreates : create_customer(data)
    \/ \E id \in PathIds : update_customer(id, [name |-> BaseCustomer.name])

MemberRequest ==
    \/ \E id \in PathIds : get_crew_member(id)
    \/ \E data \in MemberCreates : create_crew_member(data)
    \/ \E id \in PathIds : update_crew_member(id, [position |-> BaseMember.position])

CrewRequest ==
    \/ \E id \in PathIds : get_crew(id)
    \/ \E data \in CrewCreates : create_crew(data)
    \/ \E id \in PathIds : update_crew(id, [description |-> BaseCrew.description])
    \/ \E id \in PathIds, data \in AddMemberPayloads : add_member_to_crew(id, data)
    \/ \E id \in PathIds, m \in PathIds : remove_member_from_crew(id, m)

AppointmentRequest ==
    \/ \E id \in PathIds : get_appointment(id)
    \/ \E data \in AppointmentCreates : create_appointment(data)
    \/ \E id \in PathIds : update_appointment(id, [notes |-> BaseAppointment.notes])

Next == CustomerRequest \/ MemberRequest \/ CrewRequest \/ AppointmentRequest

Spec == Init /\ [][Next]_vars

\* the payload lacks one of the keys: it is missing, or given as null
\* JSON null as a value of the payload key: a date or a time is text in a
\* payload
NullIn(key) ==
    IF key \in {"appointment_date", "appointment_time"} THEN None ELSE NullOf(key)
Lacks(data, keys) == \E k \in keys : ~Has(data, k) \/ data[k] = NullIn(k)

\* C6: a create request that lacks a required field (missing or null), and
\* names no customer that does not exist, is answered 400 and persists no row
\* of its entity, for each of the four entity types.
C6_RequiredFields ==
    [][/\ \A data \in CustomerCreates :
             create_customer(data) /\ Lacks(data, {"name", "phone"})
                => resp'.code = 400 /\ customers' = customers
       /\ \A data \in MemberCreates :
             create_crew_member(data) /\ Lacks(data, {"name"})
                => resp'.code = 400 /\ crew_members' = crew_members
       /\ \A data \in CrewCreates :
             create_crew(data) /\ Lacks(data, {"name"})
                => resp'.code = 400 /\ crews' = crews
       /\ \A data \in AppointmentCreates :
             /\ create_appointment(data)
             /\ Lacks(data, RequiredAppointmentKeys)
             /\ Lacks(data, {"customer_id"}) \/ data.customer_id \in DOMAIN customers
             => resp'.code = 400 /\ appointments' = appointments]_vars

\* C8: a by-id request (get, update, add member, remove member) whose id is
\* the id of no stored row is answered 404 and changes nothing.
C8_NotFound ==
    [][\A id \in PathIds :
         /\ \/ get_customer(id)
            \/ update_customer(id, [name |-> BaseCustomer.name])
            => (id \notin DOMAIN customers
                  => resp'.code = 404 /\ UNCHANGED storeVars)
         /\ \/ get_crew_member(id)
            \/ update_crew_member(id, [position |-> BaseMember.position])
            => (id \notin DOMAIN crew_members
                  => resp'.code = 404 /\ UNCHANGED storeVars)
         /\ \/ get_crew(id)
            \/ update_crew(id, [description |-> BaseCrew.description])
            => (id \notin DOMAIN crews
                  => resp'.code = 404 /\ UNCHANGED storeVars)
         /\ \/ get_appointment(id)
            \/ update_appointment(id, [notes |-> BaseAppointment.notes])
            => (id \notin DOMAIN appointments
                  => resp'.code = 404 /\ UNCHANGED storeVars)
         /\ \A m \in PathIds :
               \/ add_member_to_crew(id, [member_id |-> m])
               \/ remove_member_from_crew(id, m)
               => (id \notin DOMAIN crews \/ m \notin DOMAIN crew_members
                     => resp'.code = 404 /\ UNCHANGED storeVars)]_vars

\* ------------------------------------------------ the status endpoint alone

\* the store after one customer was created
OneCustomer == 1 :> Customer(BaseCustomer)
\* the store after one crew was created
OneCrew == 1 :> Crew(BaseCrew)

StatusPayloads ==
    {EmptyData, [notes |-> "done"]}
    \cup {[status |-> s] : s \in valid_statuses \cup {"confirmed", "done", "", None}}

InitStatus ==
    /\ Idle
    /\ fk_enforced = FALSE
    /\ customers = OneCustomer
    /\ crew_members = EmptyData
    /\ crews = EmptyData
    /\ association = {}
    /\ appointments = EmptyData

NextStatus ==
    \/ \E s \in {"scheduled", "confirmed"} :
          create_appointment(Override(BaseAppointment, "status", s))
    \/ \E id \in PathIds, data \in StatusPayloads : update_appointment_status(id, data)
    \/ \E id \in PathIds : get_appointment(id)

SpecStatus == InitStatus /\ [][NextStatus]_vars

\* C3: PUT /appointments/{id}/status on an existing appointment answers 200
\* and stores the requested status when it is one of scheduled, in_progress,
\* completed, cancelled, whatever the current status; any other value, and a
\* payload without status, is answered 400 and the table is unchanged.
C3_StatusEndpoint ==
    [][\A id \in DOMAIN appointments, data \in StatusPayloads :
          update_appointment_status(id, data) =>
             IF /\ Has(data, "status")
                /\ data.status \in {"scheduled", "in_progress", "completed", "cancelled"}
             THEN /\ resp'.code = 200
                  /\ appointments'[id].status = data.status
                  /\ \A a \in DOMAIN appointments \ {id} :
                        appointments'[a] = appointments[a]
             ELSE /\ resp'.code = 400
                  /\ appointments' = appointments]_vars

\* C3 witness: the endpoint has answered 200 and an appointment created as
\* confirmed now is cancelled, while another one is still confirmed
C3_Witness ==
    /\ resp = [op |-> "update_appointment_status", code |-> 200, committed |-> TRUE]
    /\ \E a, b \in DOMAIN appointments :
          /\ appointments[a].status = "cancelled"
          /\ appointments[b].status = "confirmed"

\* ------------------------------------------------------ crew membership alone

InitCrew ==
    /\ Idle
    /\ IdleStore
    /\ fk_enforced = FALSE

NextCrew ==
    \/ create_crew(BaseCrew)
    \/ create_crew_member(BaseMember)
    \/ \E id \in PathIds, data \in AddMemberPayloads : add_member_to_crew(id, data)
    \/ \E id \in PathIds, m \in PathIds : remove_member_from_crew(id, m)

SpecCrew == InitCrew /\ [][NextCrew]_vars

\* C4: adding a member to a crew answers 200 and leaves the store with the
\* link of that pair, and nothing else changed; when the link is already
\* there the store is unchanged. Removing a member that is not in the crew
\* answers 200 and changes nothing.
C4_MembershipIdempotent ==
    [][\A c \in DOMAIN crews, m \in DOMAIN crew_members :
          /\ add_member_to_crew(c, [member_id |-> m]) =>
                /\ resp'.code = 200
                /\ association' = association \cup {<<c, m>>}
                /\ UNCHANGED <<customers, crew_members, crews, appointments>>
                /\ <<c, m>> \in association => UNCHANGED storeVars
          /\ remove_member_from_crew(c, m) /\ <<c, m>> \notin association =>
                /\ resp'.code = 200
                /\ UNCHANGED storeVars]_vars

\* C4 witness: an add that found the member in the crew already: it answered
\* 200 without a commit
C4_Witness ==
    /\ resp = [op |-> "add_member_to_crew", code |-> 200, committed |-> FALSE]
    /\ association # {}

\* ------------------------------------------- the references of an appointment

RefIds == {NULL, 0} \cup PathIds
RefCreates ==
    {Override(BaseAppointment, "customer_id", c) : c \in RefIds}
    \cup {Override(Override(BaseAppointment, "customer_id", c), "crew_id", k) :
            c \in PathIds, k \in RefIds}
RefUpdates ==
    {[customer_id |-> c] : c \in RefIds}
    \cup {[crew_id |-> k] : k \in RefIds}
    \cup {[customer_id |-> c, crew_id |-> k] : c \in PathIds, k \in RefIds}

InitRefs ==
    /\ Idle
    /\ IdleStore
    /\ fk_enforced \in BOOLEAN

NextRefs ==
    \/ create_customer(BaseCustomer)
    \/ create_crew(BaseCrew)
    \/ \E id \in PathIds : delete_customer(id)
    \/ \E id \in PathIds : delete_crew(id)
    \/ \E data \in RefCreates : create_appointment(data)
    \/ \E id \in PathIds, data \in RefUpdates : update_appointment(id, data)

SpecRefs == InitRefs /\ [][NextRefs]_vars

\* the references of the appointment row resolve in the given tables
Resolves(row, cu, cr) ==
    /\ row.customer_id \in DOMAIN cu
    /\ row.crew_id = NULL \/ row.crew_id \in DOMAIN cr
\* the payload names a customer or a crew that does not exist
NamesMissing(data) ==
    \/ Has(data, "customer_id") /\ data.customer_id \notin DOMAIN customers
    \/ Has(data, "crew_id") /\ data.crew_id # NULL /\ data.crew_id \notin DOMAIN crews

\* C5: after a successful create_appointment or update_appointment the
\* appointment's customer_id is the id of a stored customer and its crew_id is
\* null or the id of a stored crew; a request that names a customer or a crew
\* that does not exist (crew_id 0 included) is rejected and changes nothing.
C5_ReferencesResolve ==
    [][/\ \A data \in RefCreates :
             create_appointment(data) =>
                /\ resp'.code = 201 =>
                      Resolves(appointments'[NextId(appointments)], customers', crews')
                /\ NamesMissing(data) =>
                      resp'.code \notin {200, 201} /\ UNCHANGED storeVars
       /\ \A id \in DOMAIN appointments, data \in RefUpdates :
             update_appointment(id, data) =>
                /\ resp'.code = 200 => Resolves(appointments'[id], customers', crews')
                /\ NamesMissing(data) =>
                      resp'.code \notin {200, 201} /\ UNCHANGED storeVars]_vars

\* --------------------------------------------------------- partial updates

PartialUpdates ==
    {EmptyData, [status |-> "completed"], [notes |-> "Call ahead"]}

InitUpdate ==
    /\ Idle
    /\ fk_enforced = FALSE
    /\ customers = OneCustomer
    /\ crew_members = EmptyData
    /\ crews = OneCrew
    /\ association = {}
    /\ appointments = EmptyData

NextUpdate ==
    \/ create_appointment(Override(BaseAppointment, "crew_id", 1))
    \/ \E id \in PathIds, data \in PartialUpdates : update_appointment(id, data)
    \/ Tick

SpecUpdate == InitUpdate /\ [][NextUpdate]_vars

AppointmentColumns ==
    {"customer_id", "crew_id", "appointment_date", "appointment_time",
     "estimated_duration", "origin_address", "destination_address", "status",
     "notes", "estimated_cost", "actual_cost", "created_at", "updated_at"}

\* C7 as claimed: a PUT whose payload holds only status replaces status and
\* leaves every other column of the row, and every other row, as it was.
C7_OnlyStatusChanges ==
    [][\A id \in DOMAIN appointments, s \in {"completed"} :
          update_appointment(id, [status |-> s]) =>
             appointments' = [appointments EXCEPT ![id].status = s]]_vars

\* C7 as amended: a PUT on an existing appointment answers 200, replaces the
\* columns its payload holds and leaves every other column but updated_at, and
\* every other row, as it was; updated_at becomes the current timestamp when
\* the row changed and stays otherwise.
C7_PartialUpdate ==
    [][\A id \in DOMAIN appointments, data \in PartialUpdates \ {EmptyData} :
          update_appointment(id, data) =>
             /\ resp'.code = 200
             /\ DOMAIN appointments' = DOMAIN appointments
             /\ \A a \in DOMAIN appointments \ {id} : appointments'[a] = appointments[a]
             /\ \A k \in AppointmentColumns \ {"updated_at"} :
                   appointments'[id][k]
                      = IF Has(data, k) THEN data[k] ELSE appointments[id][k]
             /\ appointments'[id].updated_at
                   = IF \E k \in DOMAIN data : data[k] # appointments[id][k]
                     THEN clock ELSE appointments[id].updated_at]_vars

\* C7 witness: a PUT was answered 200 and left a completed appointment, updated
\* after it was created, that still holds the notes and costs it was created
\* with, next to an appointment not updated at all
C7_Witness ==
    /\ resp = [op |-> "update_appointment", code |-> 200, committed |-> TRUE]
    /\ \E a, b \in DOMAIN appointments :
          /\ appointments[a].status = "completed"
          /\ appointments[a].updated_at > appointments[a].created_at
          /\ appointments[a].notes = BaseAppointment.notes
          /\ appointments[a].estimated_cost = BaseAppointment.estimated_cost
          /\ appointments[b].status = "scheduled"
          /\ appointments[b].updated_at = appointments[b].created_at

\* ------------------------------------------------- health: the five checks

\* a statement on the table executes: the database answers and holds the table
Queryable(t) == db_up /\ t \in existing_tables

\* a COUNT query is slow when it takes more than this many milliseconds
SlowQueryMs == 100
QueryTimes == {SlowQueryMs, SlowQueryMs + 1}

\* the attributes of the CrewMember model
CrewMemberColumns ==
    {"id", "name", "phone", "email", "position", "is_active", "created_at"}

check_connection == IF db_up THEN "healthy" ELSE "unhealthy"

check_tables_exist ==
    LET existing == {t \in required_tables : Queryable(t)}
        missing_tables == required_tables \ existing
    IN  IF missing_tables = {} THEN "healthy" ELSE "unhealthy"

orphaned_appointments ==
    Cardinality({a \in DOMAIN appointments :
                    /\ appointments[a].customer_id # NULL
                    /\ appointments[a].customer_id \notin DOMAIN customers})

orphaned_crew_members ==
    Cardinality({m \in DOMAIN crew_members :
                    /\ Has(crew_members[m], "crew_id")
                    /\ crew_members[m].crew_id # NULL
                    /\ crew_members[m].crew_id \notin DOMAIN crews})

\* the first query runs, then CrewMember.crew_id is evaluated: the model has
\* no such attribute, the AttributeError is caught by the except clause
check_data_integrity ==
    IF ~(Queryable("appointment") /\ Queryable("customer")) THEN "unhealthy"
    ELSE IF "crew_id" \notin CrewMemberColumns THEN "unhealthy"
    ELSE IF ~(Queryable("crew_member") /\ Queryable("crew")) THEN "unhealthy"
    ELSE IF orphaned_appointments = 0 /\ orphaned_crew_members = 0 THEN "healthy"
    ELSE "warning"

slow_queries == {t \in required_tables : query_time_ms[t] > SlowQueryMs}

check_performance_metrics ==
    IF ~(\A t \in required_tables : Queryable(t)) THEN "unhealthy"
    ELSE IF slow_queries = {} THEN "healthy" ELSE "warning"

\* a variant that reports healthy whether its queries succeed or not
recent_activity_always_healthy == "healthy"

\* the two counts of recent rows decide nothing: healthy when both queries
\* succeed, unhealthy from the except clause
check_recent_activity ==
    IF Queryable("appointment") /\ Queryable("customer") THEN "healthy"
    ELSE "unhealthy"

\* what each entry of the checks dictionary returns in the current state
CheckOutcomes ==
    [n \in CheckSet |->
        CASE n = "connection" -> check_connection
          [] n = "tables" -> check_tables_exist
          [] n = "data_integrity" -> check_data_integrity
          [] n = "performance" -> check_performance_metrics
          [] n = "activity" -> check_recent_activity]

get_database_health ==
    /\ health_report' = run_all_checks(CheckOutcomes)
    /\ UNCHANGED <<storeVars, envVars, resp, seed_runs, loopVars, sessions>>

\* the environment: the database goes down and comes back, a table is
\* dropped or created, a COUNT query takes more or less time
DatabaseFlips ==
    /\ db_up' = ~db_up
    /\ UNCHANGED <<storeVars, clock, fk_enforced, existing_tables, query_time_ms,
                   resp, health_report, seed_runs, loopVars, sessions>>

TableFlips(t) ==
    /\ existing_tables' = IF t \in existing_tables THEN existing_tables \ {t}
                          ELSE existing_tables \cup {t}
    /\ (t \in existing_tables) =>
          CASE t = "customer" -> customers = EmptyData
            [] t = "crew_member" -> crew_members = EmptyData
            [] t = "crew" -> crews = EmptyData
            [] t = "appointment" -> appointments = EmptyData
    /\ UNCHANGED <<storeVars, clock, fk_enforced, db_up, query_time_ms,
                   resp, health_report, seed_runs, loopVars, sessions>>

QueryTakes(t, ms) ==
    /\ query_time_ms[t] # ms
    /\ query_time_ms' = [query_time_ms EXCEPT ![t] = ms]
    /\ UNCHANGED <<storeVars, clock, fk_enforced, db_up, existing_tables,
                   resp, health_report, seed_runs, loopVars, sessions>>

InitHealth ==
    /\ Idle
    /\ IdleStore
    /\ fk_enforced = FALSE

NextHealth ==
    \/ get_database_health
    \/ DatabaseFlips
    \/ \E t \in required_tables : TableFlips(t)
    \/ \E t \in required_tables, ms \in QueryTimes : QueryTakes(t, ms)
    \/ /\ db_up /\ existing_tables = required_tables /\ Room(customers)
       /\ create_customer(BaseCustomer)
    \/ /\ db_up /\ existing_tables = required_tables /\ Room(appointments)
       /\ create_appointment(BaseAppointment)

SpecHealth == InitHealth /\ [][NextHealth]_vars

\* C2: whenever the connectivity query succeeds, the store holds zero
\* integrity issues (every appointment has its customer, no crew reference
\* dangles) and no table count query is slow, the report get_database_health
\* returns has overall_status healthy.  (Stated with every required table in
\* place, the case most favourable to the claim.)
C2_HealthyWhenClean ==
    [][(/\ get_database_health
        /\ db_up
        /\ existing_tables = required_tables
        /\ ForeignKeysHold(customers, crew_members, crews, association, appointments)
        /\ slow_queries = {})
       => health_report'.overall_status = "healthy"]_vars

\* ----------------------------------------------------------------- seeding

customers_data ==
    << [name |-> "John Smith", phone |-> "555-0101",
        email |-> "john.smith@email.com",
        address |-> "123 Main St, Anytown, ST 12345"],
       [name |-> "Sarah Johnson", phone |-> "555-0102",
        email |-> "sarah.johnson@email.com",
        address |-> "456 Oak Ave, Somewhere, ST 12346"],
       [name |-> "Michael Brown", phone |-> "555-0103",
        email |-> "michael.brown@email.com",
        address |-> "789 Pine Rd, Elsewhere, ST 12347"],
       [name |-> "Emily Davis", phone |-> "555-0104",
        email |-> "emily.davis@email.com",
        address |-> "321 Elm St, Nowhere, ST 12348"],
       [name |-> "David Wilson", phone |-> "555-0105",
        email |-> "david.wilson@email.com",
        address |-> "654 Maple Dr, Anywhere, ST 12349"] >>

crew_members_data ==
    << [name |-> "Mike Rodriguez", phone |-> "555-1001",
        email |-> "mike.rodriguez@movingco.com", position |-> "Team Lead",
        is_active |-> "True"],
       [name |-> "James Thompson", phone |-> "555-1002",
        email |-> "james.thompson@movingco.com", position |-> "Mover",
        is_active |-> "True"],
       [name |-> "Carlos Martinez", phone |-> "555-1003",
        email |-> "carlos.martinez@movingco.com", position |-> "Mover",
        is_active |-> "True"],
       [name |-> "Robert Lee", phone |-> "555-1004",
        email |-> "robert.lee@movingco.com", position |-> "Driver",
        is_active |-> "True"],
       [name |-> "Anthony Garcia", phone |-> "555-1005",
        email |-> "anthony.garcia@movingco.com", position |-> "Mover",
        is_active |-> "True"] >>

crews_data ==
    << [name |-> "Alpha Team",
        description |-> "Primary moving crew for residential moves",
        is_active |-> "True"],
       [name |-> "Beta Team",
        description |-> "Secondary crew for commercial and large moves",
        is_active |-> "True"] >>

\* Model.query.filter_by(key=v).first() finds a row
Existing(t, key, v) == \E id \in DOMAIN t : t[id][key] = v

Min(a, b) == IF a < b THEN a ELSE b

\* the loop of seed_customers from entry i on: st.table is the customer
\* table so far, st.created the ids of the customers this call has added
RECURSIVE SeedCustomersFrom(_, _)
SeedCustomersFrom(i, st) ==
    IF i > Len(customers_data) THEN st
    ELSE LET customer_data == customers_data[i]
         IN  IF Existing(st.table, "phone", customer_data.phone)
             THEN SeedCustomersFrom(i + 1, st)
             ELSE SeedCustomersFrom(i + 1,
                    [table |-> (NextId(st.table) :> Customer(customer_data))
                                  @@ st.table,
                     created |-> Append(st.created, NextId(st.table))])

\* a variant of seed_customers that adds every sample customer, phone held or not
SeedCustomersBlind(t) ==
    LET ids == [i \in DOMAIN customers_data |-> NextId(t) + i - 1]
    IN  [table |-> [id \in {ids[i] : i \in DOMAIN ids} |->
                       Customer(customers_data[id - NextId(t) + 1])] @@ t,
         created |-> ids]

seed_customers(t) == SeedCustomersFrom(1, [table |-> t, created |-> << >>])

RECURSIVE SeedCrewMembersFrom(_, _)
SeedCrewMembersFrom(i, st) ==
    IF i > Len(crew_members_data) THEN st
    ELSE LET member_data == crew_members_data[i]
         IN  IF Existing(st.table, "phone", member_data.phone)
             THEN SeedCrewMembersFrom(i + 1, st)
             ELSE SeedCrewMembersFrom(i + 1,
                    [table |-> (NextId(st.table) :> CrewMember(member_data))
                                  @@ st.table,
                     created |-> Append(st.created, NextId(st.table))])

seed_crew_members(t) == SeedCrewMembersFrom(1, [table |-> t, created |-> << >>])

\* seed_crews wants at least this many crew members created by this run
MinCrewMembers == 4

\* the loop of seed_crews from entry i on (i counts from 1, the code's i
\* from 0): the members of crew i are members[start_idx .. end_idx - 1]
RECURSIVE SeedCrewsFrom(_, _, _)
SeedCrewsFrom(i, members, st) ==
    IF i > Len(crews_data) THEN st
    ELSE LET crew_data == crews_data[i]
             id == NextId(st.table)
             start_idx == (i - 1) * 2
             end_idx == Min(start_idx + 3, Len(members))
             links == {<<id, members[j + 1]>> : j \in start_idx..(end_idx - 1)}
         IN  IF Existing(st.table, "name", crew_data.name)
             THEN SeedCrewsFrom(i + 1, members, st)
             ELSE SeedCrewsFrom(i + 1, members,
                    [table |-> (id :> Crew(crew_data)) @@ st.table,
                     links |-> st.links \cup links,
                     conflict |-> st.conflict \/ links \cap st.links # {},
                     created |-> Append(st.created, id)])

seed_crews(t, as, members) ==
    IF Len(members) < MinCrewMembers
    THEN [table |-> t, links |-> as, conflict |-> FALSE, created |-> << >>]
    ELSE SeedCrewsFrom(1, members,
            [table |-> t, links |-> as, conflict |-> FALSE, created |-> << >>])

\* seed_appointments creates this many appointments
SampleAppointments == 10

SeedStatuses == <<"scheduled", "confirmed", "in_progress">>

\* appointment_data of the loop index i (from 0)
appointment_data(i, cust, crws) ==
    [customer_id |-> cust[(i % Len(cust)) + 1],
     crew_id |-> crws[(i % Len(crws)) + 1],
     estimated_duration |-> 120 + (i % 3) * 60,
     origin_address |->
        ToString(100 + i * 10) \o " Source St, Origin City, ST 1000" \o ToString(i),
     destination_address |->
        ToString(200 + i * 10) \o " Dest Ave, Destination City, ST 2000" \o ToString(i),
     status |-> SeedStatuses[(i % 3) + 1],
     notes |-> "Sample appointment #" \o ToString(i + 1) \o " - Handle with care",
     estimated_cost |-> 300 + i * 50]

\* a variant of seed_appointments without its first guard
seed_appointments_unguarded(t, cust, crws) ==
    LET c == IF cust = << >> THEN <<NextId(customers)>> ELSE cust
        k == IF crws = << >> THEN <<NextId(crews)>> ELSE crws
        first == NextId(t)
    IN  [table |->
            [id \in first..(first + SampleAppointments - 1) |->
                Appointment(appointment_data(id - first, c, k),
                            clock + (id - first) + 1,
                            (9 + ((id - first) % 8)) * 60)] @@ t,
         created |-> [i \in 1..SampleAppointments |-> first + i - 1]]

\* base_date is today, the day of the clock; a time is minutes since midnight
seed_appointments(t, cust, crws) ==
    IF cust = << >> \/ crws = << >> THEN [table |-> t, created |-> << >>]
    ELSE LET first == NextId(t)
         IN  [table |->
                 [id \in first..(first + SampleAppointments - 1) |->
                     Appointment(appointment_data(id - first, cust, crws),
                                 clock + (id - first) + 1,
                                 (9 + ((id - first) % 8)) * 60)] @@ t,
              created |-> [i \in 1..SampleAppointments |-> first + i - 1]]

MaxSeedRuns == 2

\* seed_all_data: the four seeding functions in order, each with its own
\* commit; seed_crews and seed_appointments get the rows this run created.
\* An association row that is already in the table makes the commit of
\* seed_crews raise: what the earlier functions committed stays.
\* resp.code is 0 when the call returns and 1 when it raises.
seed_all_data ==
    /\ seed_runs < MaxSeedRuns
    /\ seed_runs' = seed_runs + 1
    /\ LET cu == seed_customers(customers)
           me == seed_crew_members(crew_members)
           cr == seed_crews(crews, association, me.created)
           ap == seed_appointments(appointments, cu.created, cr.created)
       IN  /\ customers' = cu.table
           /\ crew_members' = me.table
           /\ IF cr.conflict
              THEN /\ UNCHANGED <<crews, association, appointments>>
                   /\ resp' = [op |-> "seed_all_data", code |-> 1,
                               committed |-> TRUE]
              ELSE /\ crews' = cr.table
                   /\ association' = cr.links
                   /\ appointments' = ap.table
                   /\ resp' = [op |-> "seed_all_data", code |-> 0,
                               committed |-> TRUE,
                               created |-> [customers |-> Len(cu.created),
                                            crew_members |-> Len(me.created),
                                            crews |-> Len(cr.created),
                                            appointments |-> Len(ap.created)]]
    /\ UNCHANGED <<envVars, health_report, loopVars, sessions>>

\* seeding, with customers that walk in before it and customers, crew members
\* and crews that change their phone or name between the runs
WalkIn == [name |-> "Walk In", phone |-> customers_data[1].phone]
NewCustomerPhone == [phone |-> "555-0199"]
NewMemberPhone == [phone |-> "555-1099"]
NewCrewName == [name |-> "Gamma Team"]

InitSeed ==
    /\ Idle
    /\ IdleStore
    /\ fk_enforced = FALSE

NextSeed ==
    \/ seed_all_data
    \/ create_customer(WalkIn)
    \/ update_customer(1, NewCustomerPhone)
    \/ \E id \in 1..MinCrewMembers :
          /\ \A j \in 1..(id - 1) :
                j \in DOMAIN crew_members
                   /\ crew_members[j].phone = NewMemberPhone.phone
          /\ update_crew_member(id, NewMemberPhone)
    \/ update_crew(1, NewCrewName)

SpecSeed == InitSeed /\ [][NextSeed]_vars

SeededPhones == {customers_data[i].phone : i \in DOMAIN customers_data}
SeededNames == {customers_data[i].name : i \in DOMAIN customers_data}
PhoneCount(t, p) == Cardinality({id \in DOMAIN t : t[id].phone = p})
Rows(t) == Cardinality(DOMAIN t)

\* C9: customer seeding is idempotent on phone.  A seeding run creates one
\* customer for each seeded phone the store does not hold and none for a
\* phone it holds, so the rows per seeded phone stay what they were when there
\* was one and become one otherwise; it leaves the customers there untouched;
\* on an empty store it creates exactly the 5 sample customers, named as
\* given.
C9_SeedCustomersIdempotent ==
    [][seed_all_data =>
        LET missing == {p \in SeededPhones : PhoneCount(customers, p) = 0}
        IN  /\ \A p \in SeededPhones :
                  PhoneCount(customers', p)
                     = IF p \in missing THEN 1 ELSE PhoneCount(customers, p)
            /\ Rows(customers') = Rows(customers) + Cardinality(missing)
            /\ resp'.code = 0 => resp'.created.customers = Cardinality(missing)
            /\ \A id \in DOMAIN customers :
                  id \in DOMAIN customers' /\ customers'[id] = customers[id]
            /\ customers = EmptyData =>
                  /\ Rows(customers') = Len(customers_data)
                  /\ {customers'[id].name : id \in DOMAIN customers'} = SeededNames
                  /\ \A p \in SeededPhones : PhoneCount(customers', p) = 1]_vars

\* C9 witness: a second seeding run on the seeded store has created no
\* customer and the store holds the 5 sample customers
C9_Witness ==
    /\ seed_runs = 2
    /\ resp.op = "seed_all_data"
    /\ resp.created.customers = 0
    /\ Rows(customers) = Len(customers_data)
    /\ \A p \in SeededPhones : PhoneCount(customers, p) = 1

\* the last thing that happened is a seeding run that created the sample
\* appointments
JustSeeded ==
    /\ resp.op = "seed_all_data"
    /\ resp.code = 0
    /\ resp.created.appointments = SampleAppointments

\* C10 as claimed: a seeding run right after a run that created the sample
\* appointments creates a further set of sample appointments.
C10_ReseedDuplicates ==
    [][(seed_all_data /\ JustSeeded) =>
          Rows(appointments') = Rows(appointments) + SampleAppointments]_vars

\* C10 as the code has it: a seeding run creates the 10 sample appointments
\* exactly when it has itself created a customer and a crew, and none
\* otherwise; it creates a crew only when it has created 4 crew members; a run
\* right after a run that created the sample appointments changes no table.
C10_ReseedCreatesNothing ==
    [][(seed_all_data /\ resp'.code = 0) =>
        LET created == resp'.created
        IN  /\ Rows(appointments') = Rows(appointments) + created.appointments
            /\ created.appointments =
                  IF created.customers > 0 /\ created.crews > 0
                  THEN SampleAppointments ELSE 0
            /\ created.crews > 0 => created.crew_members >= MinCrewMembers
            /\ \A id \in DOMAIN appointments :
                  id \in DOMAIN appointments'
                     /\ appointments'[id] = appointments[id]
            /\ JustSeeded =>
                  /\ created.appointments = 0
                  /\ UNCHANGED storeVars]_vars

\* C10 witness: the second of two seeding runs in a row has created nothing
\* and the store holds the sample appointments of the first
C10_Witness ==
    /\ seed_runs = 2
    /\ resp.op = "seed_all_data"
    /\ resp.created.appointments = 0
    /\ resp.created.crew_members = 0
    /\ Rows(appointments) = SampleAppointments
    /\ Rows(crews) = Len(crews_data)

\* a later seeding run has created a second set of sample appointments
C10_SecondSet ==
    /\ resp.op = "seed_all_data"
    /\ Rows(appointments) = 2 * SampleAppointments

\* ---------------------------------------------------------------- clearing

\* the tables as one value
Store ==
    [customers |-> customers, crew_members |-> crew_members, crews |-> crews,
     association |-> association, appointments |-> appointments]

\* Model.query.delete(): one DELETE statement for every row of the table; it
\* touches no other table
DeleteAll(table, st) ==
    CASE table = "appointment" -> [st EXCEPT !.appointments = EmptyData]
      [] table = "crew" -> [st EXCEPT !.crews = EmptyData]
      [] table = "crew_member" -> [st EXCEPT !.crew_members = EmptyData]
      [] table = "customer" -> [st EXCEPT !.customers = EmptyData]

\* the DELETE statement violates a FOREIGN KEY constraint: a row of another
\* table still names a row of this one
StillReferenced(table, st) ==
    CASE table = "appointment" -> FALSE
      [] table = "crew" ->
            \/ \E l \in st.association : l[1] \in DOMAIN st.crews
            \/ \E a \in DOMAIN st.appointments :
                  st.appointments[a].crew_id \in DOMAIN st.crews
      [] table = "crew_member" ->
            \E l \in st.association : l[2] \in DOMAIN st.crew_members
      [] table = "customer" ->
            \E a \in DOMAIN st.appointments :
               st.appointments[a].customer_id \in DOMAIN st.customers

\* the order of the four deletions
ClearOrder == <<"appointment", "crew", "crew_member", "customer">>

\* the statements of clear_all_data: the four deletions and the commit
ClearSteps == 1..(Len(ClearOrder) + 1)

\* the deletions from the i-th on, in the transaction whose tables are
\* st.tables; fails_at is the statement at which the database fails (0: none)
RECURSIVE ClearFrom(_, _, _)
ClearFrom(i, st, fails_at) ==
    IF st.failed \/ i > Len(ClearOrder) THEN st
    ELSE IF \/ fails_at = i
            \/ fk_enforced /\ StillReferenced(ClearOrder[i], st.tables)
         THEN [st EXCEPT !.failed = TRUE]
         ELSE ClearFrom(i + 1,
                        [st EXCEPT !.tables = DeleteAll(ClearOrder[i], st.tables)],
                        fails_at)

RollbackKeepsDeletions(stored, pending) == pending

\* db.session.rollback(): the tables are what they were at the last commit
Rollback(stored, pending) == stored

\* clear_all_data; resp.code is 0 when the call returns and 1 when it raises
clear_all_data(fails_at) ==
    LET done == ClearFrom(1, [tables |-> Store, failed |-> FALSE],
                          IF db_up THEN fails_at ELSE 1)
        failed == done.failed \/ fails_at = Len(ClearOrder) + 1
        after == IF failed THEN Rollback(Store, done.tables) ELSE done.tables
    IN  /\ customers' = after.customers
        /\ crew_members' = after.crew_members
        /\ crews' = after.crews
        /\ association' = after.association
        /\ appointments' = after.appointments
        /\ resp' = [op |-> "clear_all_data", code |-> IF failed THEN 1 ELSE 0,
                    committed |-> ~failed]
        /\ UNCHANGED ignored

\* seeding and clearing next to the crew endpoints, on a storage engine that
\* may or may not enforce foreign keys; the database may fail at any
\* statement of clear_all_data
InitData ==
    /\ Idle
    /\ IdleStore
    /\ fk_enforced \in BOOLEAN

NextData ==
    \/ seed_all_data
    \/ \E fails_at \in {0} \cup ClearSteps : clear_all_data(fails_at)
    \/ create_crew_member(BaseMember)
    \/ create_crew(Override(BaseCrew, "member_ids", <<1>>))
    \/ delete_crew(1)
    \/ delete_crew_member(1)
    \/ add_member_to_crew(1, [member_id |-> 1])

SpecData == InitData /\ [][NextData]_vars

\* seeding and clearing alone, with a crew and a crew member deleted in
\* between
NextClear ==
    \/ seed_all_data
    \/ \E fails_at \in {0} \cup ClearSteps : clear_all_data(fails_at)
    \/ delete_crew(1)
    \/ delete_crew_member(1)
    \/ add_member_to_crew(2, [member_id |-> 1])

SpecClear == InitData /\ [][NextClear]_vars

\* C11: clear_all_data is atomic.  When a deletion or the commit fails, at
\* whichever statement, the call raises and every table holds exactly the rows
\* it held before the call; when nothing fails the four tables are empty.
C11_ClearIsAtomic ==
    [][\A fails_at \in {0} \cup ClearSteps :
          clear_all_data(fails_at) =>
             /\ fails_at # 0 => resp'.code = 1
             /\ resp'.code = 1 => UNCHANGED storeVars
             /\ resp'.code = 0 =>
                   /\ appointments' = EmptyData
                   /\ crews' = EmptyData
                   /\ crew_members' = EmptyData
                   /\ customers' = EmptyData]_vars

\* C11 witness: clear_all_data has raised and the store still holds the
\* seeded appointments, crews, crew members and customers
C11_Witness ==
    /\ resp = [op |-> "clear_all_data", code |-> 1, committed |-> FALSE]
    /\ Rows(appointments) = SampleAppointments
    /\ Rows(crews) = Len(crews_data)
    /\ Rows(crew_members) = Len(crew_members_data)
    /\ Rows(customers) = Len(customers_data)

\* C18: every row of the association table names a crew and a crew member
\* that both exist, in every state reached through the crew endpoints,
\* seeding and clearing.
C18_LinksResolve ==
    \A l \in association : l[1] \in DOMAIN crews /\ l[2] \in DOMAIN crew_members

C17_IntegrityCheckStatus ==
    (\A t \in required_tables : Queryable(t)) =>
        check_data_integrity
           = IF /\ orphaned_appointments = 0
                /\ \A l \in association : l[1] \in DOMAIN crews
             THEN "healthy" ELSE "warning"

StatusCodeAlwaysOK(overall) == 200

\* the status code of GET /health/database for the overall status
StatusCodeOf(overall) ==
    IF overall = "healthy" THEN 200
    ELSE IF overall = "unhealthy" THEN 503 ELSE 200

\* GET /health/database
database_health_check ==
    LET db_health == run_all_checks(CheckOutcomes)
    IN  /\ health_report' = db_health
        /\ resp' = [op |-> "database_health_check",
                    code |-> StatusCodeOf(db_health.overall_status),
                    committed |-> FALSE]
        /\ UNCHANGED <<storeVars, envVars, seed_runs, loopVars, sessions>>

\* GET /health: SELECT 1, 200 when it executes and 503 when it raises
basic_health_check ==
    /\ resp' = [op |-> "basic_health_check",
                code |-> IF db_up THEN 200 ELSE 503, committed |-> FALSE]
    /\ UNCHANGED <<storeVars, envVars, health_report, seed_runs, loopVars, sessions>>

liveness_probes_database ==
    /\ resp' = [op |-> "liveness_check",
                code |-> IF db_up THEN 200 ELSE 503, committed |-> FALSE]
    /\ UNCHANGED <<storeVars, envVars, health_report, seed_runs, loopVars, sessions>>

\* GET /health/live: no statement of its try block can raise
liveness_check ==
    /\ resp' = [op |-> "liveness_check", code |-> 200, committed |-> FALSE]
    /\ UNCHANGED <<storeVars, envVars, health_report, seed_runs, loopVars, sessions>>

\* GET /health/ready: SELECT 1 and a COUNT on each required table
readiness_check ==
    /\ resp' = [op |-> "readiness_check",
                code |-> IF \A t \in required_tables : Queryable(t)
                         THEN 200 ELSE 503,
                committed |-> FALSE]
    /\ UNCHANGED <<storeVars, envVars, health_report, seed_runs, loopVars, sessions>>

\* the command health_check: resp.code is 0 when the command ends normally
\* and 1 when it ends with click.Abort (the Abort raised for an unhealthy
\* report is caught by the except clause, which raises Abort again)
health_check ==
    LET report == run_all_checks(CheckOutcomes)
    IN  /\ health_report' = report
        /\ resp' = [op |-> "health_check",
                    code |-> IF report.overall_status = "unhealthy" THEN 1 ELSE 0,
                    committed |-> FALSE]
        /\ UNCHANGED <<storeVars, envVars, seed_runs, loopVars, sessions>>

\* the command health_json: it prints the report; only an exception of
\* get_database_health or json.dumps ends it with click.Abort
health_json ==
    LET report == run_all_checks(CheckOutcomes)
    IN  /\ health_report' = report
        /\ resp' = [op |-> "health_json", code |-> 0, committed |-> FALSE]
        /\ UNCHANGED <<storeVars, envVars, seed_runs, loopVars, sessions>>

NextProbes ==
    \/ database_health_check
    \/ basic_health_check
    \/ liveness_check
    \/ readiness_check
    \/ health_check
    \/ health_json
    \/ DatabaseFlips
    \/ \E t \in required_tables : TableFlips(t)
    \/ \E t \in required_tables : QueryTakes(t, SlowQueryMs + 1)

SpecProbes == InitHealth /\ [][NextProbes]_vars

\* C12: GET /health/database answers 503 exactly when the overall status of
\* the report is unhealthy and 200 when it is healthy or warning; with the
\* database unreachable the report is unhealthy and the answer 503.
C12_DatabaseHealthStatus ==
    [][database_health_check =>
          /\ resp'.code = IF health_report'.overall_status = "unhealthy"
                          THEN 503 ELSE 200
          /\ ~db_up => /\ health_report'.overall_status = "unhealthy"
                       /\ health_report'.checks["connection"].status = "unhealthy"
                       /\ resp'.code = 503
          /\ \A s \in Statuses :
                StatusCodeOf(s) = IF s = "unhealthy" THEN 503 ELSE 200]_vars

\* C12 witness: GET /health/database has answered 503 with the database
\* unreachable and the connection check unhealthy
C12_Witness ==
    /\ resp.op = "database_health_check"
    /\ resp.code = 503
    /\ ~db_up
    /\ health_report # NoReport
    /\ health_report.checks["connection"].status = "unhealthy"

\* C13 as claimed: GET /health and GET /health/live answer 200 in every
\* state.
C13_ProbesAlwaysOK ==
    [][(basic_health_check \/ liveness_check) => resp'.code = 200]_vars

\* C13 as the code has it: GET /health/live answers 200 in every state, the
\* database unreachable or not; GET /health answers 200 when its query on the
\* database succeeds and 503 when the database is unreachable.
C13_LivenessAlwaysOK ==
    [][/\ liveness_check => resp'.code = 200
       /\ basic_health_check => resp'.code = IF db_up THEN 200 ELSE 503]_vars

\* C13 witness: GET /health/live has answered 200 with the database
\* unreachable
C13_Witness ==
    /\ resp.op = "liveness_check"
    /\ resp.code = 200
    /\ ~db_up

\* C14: the commands health_check and health_json end with an abort exactly
\* when the overall status of the report is unhealthy.
C14_CommandsAbortWhenUnhealthy ==
    [][(health_check \/ health_json) =>
          (resp'.code = 1 <=> health_report'.overall_status = "unhealthy")]_vars

\* ------------------------------------------------------ listing appointments

InRangeExclusive(d, start_date, end_date) ==
    /\ TruthyText(start_date) => d >= DateOf[start_date]
    /\ TruthyText(end_date) => d < DateOf[end_date]

\* the date filters of get_appointments: a bound that is absent or empty
\* filters nothing
InRange(d, start_date, end_date) ==
    /\ TruthyText(start_date) => d >= DateOf[start_date]
    /\ TruthyText(end_date) => d <= DateOf[end_date]

\* ORDER BY appointment_date, appointment_time
Ordered(a, b) ==
    \/ a.appointment_date < b.appointment_date
    \/ /\ a.appointment_date = b.appointment_date
       /\ a.appointment_time <= b.appointment_time

\* the ids in any order ORDER BY allows: rows equal in date and time come in
\* the order the database likes
Listings(ids) ==
    {p \in Perms(ids) :
        \A i, j \in DOMAIN p : i < j => Ordered(appointments[p[i]], appointments[p[j]])}

\* GET /appointments with the query arguments args
get_appointments(args) ==
    LET start_date == GetText(args, "start_date")
        end_date == GetText(args, "end_date")
        status == GetText(args, "status")
        bad(v) == TruthyText(v) /\ Parse(DateOf, v).err # "none"
        found == {a \in DOMAIN appointments :
                     /\ InRange(appointments[a].appointment_date, start_date, end_date)
                     /\ TruthyText(status) => appointments[a].status = status}
    IN  IF bad(start_date) \/ bad(end_date) THEN Reject("get_appointments", 500)
        ELSE /\ \E listing \in Listings(found) :
                   resp' = [op |-> "get_appointments", code |-> 200,
                            committed |-> FALSE, body |-> listing]
             /\ UNCHANGED <<storeVars, ignored>>

DateArgs == {"", "2025-03-01", "2025-03-02", "2025-3-2", "03/02/2025"}

ListArgs ==
    {EmptyData}
    \cup {[start_date |-> d] : d \in DateArgs}
    \cup {[end_date |-> d] : d \in DateArgs}
    \cup {[start_date |-> d, end_date |-> e] : d, e \in {"2025-03-01", "2025-03-02"}}
    \cup {[status |-> st] : st \in {"", "scheduled", "done"}}
    \cup {[start_date |-> "2025-03-02", status |-> "scheduled"],
          [end_date |-> "2025-03-01", status |-> "confirmed"]}

ListedAppointments ==
    {[BaseAppointment EXCEPT !.appointment_date = d, !.appointment_time = t] :
        d \in {"2025-03-01", "2025-03-02"}, t \in {"09:00", "14:30"}}
    \cup {Override(BaseAppointment, "status", "confirmed")}

InitList ==
    /\ Idle
    /\ fk_enforced = FALSE
    /\ customers = OneCustomer
    /\ crew_members = EmptyData
    /\ crews = EmptyData
    /\ association = {}
    /\ appointments = EmptyData

NextList ==
    \/ \E data \in ListedAppointments : create_appointment(data)
    \/ \E args \in ListArgs : get_appointments(args)

SpecList == InitList /\ [][NextList]_vars

\* the day a date of the query string stands for
DayOf(s) == IF s \in {"2025-03-01"} THEN 59 ELSE 60

\* C15: GET /appointments with well-formed arguments answers 200 with
\* exactly the stored appointments whose date is on or after start_date (when
\* given), on or before end_date (when given) and whose status is the status
\* argument (when given), each once, in ascending order of date and, within a
\* date, of time.
C15_ListFiltersAndSorts ==
    [][\A args \in ListArgs :
          (/\ get_appointments(args)
           /\ \A k \in DOMAIN args \cap {"start_date", "end_date"} :
                 args[k] \in {"", "2025-03-01", "2025-03-02", "2025-3-2"})
          => /\ resp'.code = 200
             /\ {resp'.body[i] : i \in DOMAIN resp'.body}
                   = {a \in DOMAIN appointments :
                        /\ (Has(args, "start_date") /\ args.start_date # "")
                              => DayOf(args.start_date) <= appointments[a].appointment_date
                        /\ (Has(args, "end_date") /\ args.end_date # "")
                              => appointments[a].appointment_date <= DayOf(args.end_date)
                        /\ (Has(args, "status") /\ args.status # "")
                              => appointments[a].status = args.status}
             /\ \A i, j \in DOMAIN resp'.body : i # j => resp'.body[i] # resp'.body[j]
             /\ \A i, j \in DOMAIN resp'.body :
                   i < j =>
                      LET x == appointments[resp'.body[i]]
                          y == appointments[resp'.body[j]]
                      IN  \/ x.appointment_date < y.appointment_date
                          \/ /\ x.appointment_date = y.appointment_date
                             /\ x.appointment_time <= y.appointment_time
             /\ UNCHANGED storeVars]_vars

\* C15 witness: a listing of two appointments of one date put the one created
\* later first, because its time is earlier
C15_Witness ==
    /\ resp.op = "get_appointments"
    /\ resp.code = 200
    /\ Len(resp.body) = 2
    /\ resp.body[1] > resp.body[2]
    /\ appointments[resp.body[1]].appointment_date
          = appointments[resp.body[2]].appointment_date
    /\ appointments[resp.body[1]].appointment_time
          < appointments[resp.body[2]].appointment_time

\* ------------------------------------------------------------ failed writes

\* updates of an appointment that fail after some of their assignments, some
\* that fail before any, and some that succeed
AppointmentUpdates ==
    {[customer_id |-> 2, crew_id |-> MaxRows + 1],
     [customer_id |-> 2, appointment_date |-> "03/01/2025"],
     [crew_id |-> 1, appointment_date |-> "2025-03-02", appointment_time |-> "9am"],
     [customer_id |-> MaxRows + 1, notes |-> "Call ahead"],
     [customer_id |-> 2, appointment_date |-> None],
     [origin_address |-> None],
     [customer_id |-> 2],
     [appointment_date |-> "2025-03-02"]}

\* a customer, a crew member, a crew and an appointment of the customer
InitWrites ==
    /\ Idle
    /\ fk_enforced \in BOOLEAN
    /\ customers = OneCustomer
    /\ crew_members = 1 :> CrewMember(BaseMember)
    /\ crews = OneCrew
    /\ association = {}
    /\ appointments = 1 :> Appointment(BaseAppointment, 59, 540)

NextWrites ==
    \/ \E data \in {BaseCustomer, Without(BaseCustomer, "phone")} : create_customer(data)
    \/ create_crew_member(EmptyData)
    \/ create_crew(EmptyData)
    \/ create_appointment(Override(BaseAppointment, "appointment_time", "9am"))
    \/ update_customer(1, [name |-> None])
    \/ update_crew_member(1, [name |-> None])
    \/ update_crew(1, [name |-> None, member_ids |-> <<>>])
    \/ \E data \in AppointmentUpdates : update_appointment(1, data)
    \/ \E data \in {EmptyData, [status |-> "done"], [status |-> "completed"]} :
          update_appointment_status(1, data)
    \/ delete_customer(1)
    \/ delete_crew_member(1)
    \/ delete_crew(1)
    \/ \E id \in {1, 2} : delete_appointment(id)
    \/ \E data \in {EmptyData, [member_id |-> 1], [member_id |-> 2]} :
          add_member_to_crew(1, data)
    \/ \E m \in {1, 2} : remove_member_from_crew(1, m)

SpecWrites == InitWrites /\ [][NextWrites]_vars

LinkedTo(as, c) == {l[2] : l \in {k \in as : k[1] = c}}

\* C21: a seeding run gives every crew it creates 2 or 3 crew members, and
\* gives no crew member to two of the crews it creates.
C21_SeedCrewWindows ==
    [][(seed_all_data /\ resp'.code = 0)
          => LET new == DOMAIN crews' \ DOMAIN crews
             IN  /\ \A c \in new :
                       Cardinality(LinkedTo(association', c)) \in {2, 3}
                 /\ \A c, d \in new :
                       c # d => LinkedTo(association', c) \cap LinkedTo(association', d) = {}]_vars

\* ------------------------------------------------- dates and times as text

BadDate == "03/02/2025"
BadTime == "9am"

ParseCreates ==
    ListedAppointments
    \cup {Override(BaseAppointment, "appointment_date", BadDate),
          Override(BaseAppointment, "appointment_time", BadTime)}
ParseUpdates ==
    {[appointment_date |-> "2025-03-02"], [appointment_date |-> BadDate],
     [appointment_time |-> BadTime], [appointment_date |-> BadDate, notes |-> "Call ahead"]}
ParseArgs ==
    {EmptyData, [start_date |-> "2025-03-02"], [start_date |-> BadDate],
     [end_date |-> BadDate], [start_date |-> "2025-03-01", end_date |-> BadDate]}

NextParse ==
    \/ \E data \in ParseCreates : create_appointment(data)
    \/ \E data \in ParseUpdates : update_appointment(1, data)
    \/ \E args \in ParseArgs : get_appointments(args)

SpecParse == InitList /\ [][NextParse]_vars

\* one of the keys of the payload holds text that is no date or time
Unparsable(data, keys) == \E k \in keys \cap DOMAIN data : data[k] \in {BadDate, BadTime}

\* C22: a date or a time that does not match YYYY-MM-DD or HH:MM is answered
\* 400 by create_appointment, by update_appointment and by the start_date and
\* end_date filters of get_appointments, and nothing is persisted.
C22_BadFormatIs400 ==
    [][/\ \A data \in ParseCreates :
             (create_appointment(data)
              /\ Unparsable(data, {"appointment_date", "appointment_time"}))
                => resp'.code = 400 /\ UNCHANGED storeVars
       /\ \A data \in ParseUpdates :
             (/\ 1 \in DOMAIN appointments
              /\ update_appointment(1, data)
              /\ Unparsable(data, {"appointment_date", "appointment_time"}))
                => resp'.code = 400 /\ UNCHANGED storeVars
       /\ \A args \in ParseArgs :
             (get_appointments(args) /\ Unparsable(args, {"start_date", "end_date"}))
                => resp'.code = 400 /\ UNCHANGED storeVars]_vars

\* ------------------------------------------------------ deleting a referent

\* C23: deleting a stored customer or a stored crew answers 200 and removes
\* that one row, also when appointments refer to it; no appointment is
\* deleted or modified, and no other customer, crew or crew member changes.
C23_DeleteRemovesOneRow ==
    [][/\ \A id \in DOMAIN customers :
             delete_customer(id)
                => /\ resp'.code = 200
                   /\ customers' = Remove(customers, id)
                   /\ UNCHANGED <<crew_members, crews, association, appointments>>
       /\ \A id \in DOMAIN crews :
             delete_crew(id)
                => /\ resp'.code = 200
                   /\ crews' = Remove(crews, id)
                   /\ UNCHANGED <<customers, crew_members, appointments>>]_vars

\* ------------------------------------------------- the summary of a report

\* the checks of the report that have the status
WithStatus(report, status) == {n \in DOMAIN report.checks : report.checks[n].status = status}

\* C24: in every report of run_all_checks the summary's healthy, warnings and
\* unhealthy are the numbers of check results of that status, total_checks is
\* the number of check results, which is 5, and the three counts add up to
\* total_checks.
C24_SummaryCounts ==
    health_report # NoReport =>
       LET summary == health_report.summary
       IN  /\ summary.healthy = Cardinality(WithStatus(health_report, "healthy"))
           /\ summary.warnings = Cardinality(WithStatus(health_report, "warning"))
           /\ summary.unhealthy = Cardinality(WithStatus(health_report, "unhealthy"))
           /\ summary.total_checks = Cardinality(DOMAIN health_report.checks)
           /\ summary.total_checks = 5
           /\ summary.healthy + summary.warnings + summary.unhealthy = summary.total_checks

\* C24 witness: a report of two healthy checks, a warning and two unhealthy
\* ones, one of which raised
C24_Witness ==
    /\ health_report # NoReport
    /\ health_report.summary.healthy = 2
    /\ health_report.summary.warnings = 1
    /\ health_report.summary.unhealthy = 2
    /\ Cardinality({n \in CheckSet : outcomes[n] = "raise"}) = 1

\* ------------------------------------------------------ the activity check

\* the status of the recent-activity check in the report just made
ActivityStatus == health_report'.checks["activity"].status

\* C25 (as stated): the recent-activity check reports healthy in every
\* state, whatever the numbers of customers and appointments.
C25_ActivityAlwaysHealthy ==
    [][get_database_health => ActivityStatus = "healthy"]_vars

\* C25 (amended): the recent-activity check reports healthy whenever its two
\* count queries succeed, whatever the numbers of customers and appointments,
\* and never warning; it reports unhealthy when a query fails, the database
\* being unreachable or the customer or appointment table missing.
C25_ActivityHealthyWhenQueryable ==
    [][get_database_health =>
          ActivityStatus =
             IF db_up /\ {"customer", "appointment"} \subseteq existing_tables
             THEN "healthy" ELSE "unhealthy"]_vars

\* C25 witness: a report made of a store that holds customers and
\* appointments, in which the activity check is healthy
C25_Witness ==
    /\ health_report # NoReport
    /\ health_report.checks["activity"].status = "healthy"
    /\ customers # EmptyData
    /\ appointments # EmptyData

\* ------------------------------------------------ the status of a stored row

\* C26: the status of every stored appointment is one of scheduled,
\* in_progress, completed and cancelled.
C26_StoredStatusIsValid ==
    \A a \in DOMAIN appointments : appointments[a].status \in valid_statuses

\* ------------------------------------------ add-member requests in parallel

\* what a request answered, and what it had read of the crew before
Answered(code, committed, s) ==
    [phase |-> "done", code |-> code, committed |-> committed, crew_id |-> s.crew_id,
     member_id |-> s.member_id, members |-> s.members, read |-> s.read]

\* request r runs add_member_to_crew up to the test of crew.members: the
\* crew is loaded with its members, the payload tested, the member loaded
add_member_reads(r, crew_id, data) ==
    /\ sessions[r].phase = "idle"
    /\ LET unread == [crew_id |-> crew_id, member_id |-> GetId(data, "member_id"),
                      members |-> {}, read |-> FALSE]
       IN  sessions' = [sessions EXCEPT ![r] =
              IF crew_id \notin DOMAIN crews THEN Answered(NotFoundCode, FALSE, unread)
              ELSE IF data = EmptyData \/ ~TruthyId(GetId(data, "member_id"))
              THEN Answered(400, FALSE, unread)
              ELSE IF data.member_id \notin DOMAIN crew_members
              THEN Answered(NotFoundCode, FALSE, unread)
              ELSE [phase |-> "read", crew_id |-> crew_id, member_id |-> data.member_id,
                    members |-> Members(crew_id), read |-> TRUE]]
    /\ UNCHANGED <<storeVars, envVars, resp, health_report, seed_runs, loopVars>>

\* request r runs the rest of add_member_to_crew: the append and the commit
\* when the member was not among the members it read.  The INSERT of a link
\* the association table holds already violates its primary key: the commit
\* raises IntegrityError and the handler rolls back and answers 500.
add_member_commits(r) ==
    /\ sessions[r].phase = "read"
    /\ LET s == sessions[r]
           link == <<s.crew_id, s.member_id>>
           code == IF s.member_id \in s.members THEN 200
                   ELSE IF link \in association THEN 500
                   ELSE 200
           committed == s.member_id \notin s.members /\ link \notin association
       IN  /\ association' = IF committed THEN association \cup {link} ELSE association
           /\ sessions' = [sessions EXCEPT ![r] = Answered(code, committed, s)]
           /\ resp' = [op |-> "add_member_to_crew", code |-> code, committed |-> committed]
    /\ UNCHANGED <<customers, crew_members, crews, appointments, envVars,
                   health_report, seed_runs, loopVars>>

\* a crew and two crew members, no link
InitRace ==
    /\ Idle
    /\ fk_enforced \in BOOLEAN
    /\ customers = EmptyData
    /\ crew_members = (1 :> CrewMember(BaseMember))
                         @@ (2 :> CrewMember(Override(BaseMember, "phone", "555-1002")))
    /\ crews = OneCrew
    /\ association = {}
    /\ appointments = EmptyData

NextRace ==
    \/ \E r \in Requests, crew_id \in PathIds,
             data \in {EmptyData, [member_id |-> 1], [member_id |-> 2]} :
          add_member_reads(r, crew_id, data)
    \/ \E r \in Requests : add_member_commits(r)

SpecRace == InitRace /\ [][NextRace]_vars

\* C27: when two add-member requests for one crew and member have both read
\* the crew's members without that member (each read before the other
\* committed) and both have answered, both answered 200 and the store holds
\* the link of the pair, once.
C27_ParallelAddsSucceed ==
    \A r1, r2 \in Requests :
       (/\ r1 # r2
        /\ sessions[r1].phase = "done" /\ sessions[r1].read
        /\ sessions[r2].phase = "done" /\ sessions[r2].read
        /\ sessions[r1].crew_id = sessions[r2].crew_id
        /\ sessions[r1].member_id = sessions[r2].member_id
        /\ sessions[r1].member_id \notin sessions[r1].members
        /\ sessions[r2].member_id \notin sessions[r2].members)
       => /\ sessions[r1].code = 200
          /\ sessions[r2].code = 200
          /\ Cardinality({l \in association :
                l = <<sessions[r1].crew_id, sessions[r1].member_id>>}) = 1

====
